---- MODULE Spec2Model ----
(***************************************************************************)
(* A model of package request (go-simple-request): the fluent Request      *)
(* builder, its materialisation into an *http.Request, and Execute's       *)
(* status-driven decoding into a Response.                                 *)
(*                                                                         *)
(* Go values that are references are modelled as references into heaps:    *)
(*   - builders  : the *Request objects, by index;                         *)
(*   - arrays    : the backing arrays of the []string header values; a     *)
(*                 slice is (arr, len) and its capacity is the array's     *)
(*                 length, so two slices over one array alias as in Go;    *)
(*   - shapes    : the caller's result objects that SetSuccess/SetFailure  *)
(*                 are given pointers to.                                  *)
(* exec holds the latest Execute: the Builder it was called on, as it was  *)
(* at the call, what was sent, what the transport answered and what was    *)
(* returned; req the same for the latest Request(); ret the Builder the    *)
(* latest fluent call returned.  expect is a history variable: per Builder *)
(* and key, the values its own calls put there.                            *)
(***************************************************************************)
EXTENDS Integers, Sequences, FiniteSets, TLC

\* ------------------------------------------------------------------ bounds
MaxBuilders == 2
MaxArrays == 4

\* ------------------------------------------------------------------ inputs
\* Header keys as the caller spells them, one character per element.
RawKeys == {<<"i", "d">>, <<"I", "D">>, <<"x", "-", "a">>}
HeaderValues == {"v1", "v2"}
\* Addresses given to Get/Post/...: plain, with an embedded query, with an
\* upper-case scheme (url.Parse lower-cases it), and one url.Parse rejects.
Addresses == {"http://example.com", "http://example.com?x=1",
              "HTTP://example.com?x=1", ":bad"}
\* Query objects: none, a struct with url tags, a non-struct (query.Values fails).
QueryObjs == {"nil", "fakeQuery", "notAStruct"}
\* Body objects: none, a marshallable struct, a value json.Marshal rejects.
BodyObjs == {"nil", "fakeSuccess", "unmarshallable"}
\* Pointers to the caller's result objects; 0 is the nil interface.
ShapeIds == {1, 2}
NilShape == 0
\* What the transport may answer.
Statuses == {199, 200, 299, 300, 404}
ReplyHeaders == {"hdrA", "hdrB"}
\* Reply bodies: two JSON objects, malformed text, and the JSON literal null.
Bodies == {"obj1", "obj2", "malformed", "null"}
Reply(status, header, body) ==
    [kind |-> "reply", status |-> status, header |-> header, body |-> body,
     readFails |-> FALSE]
\* Both sides of each end of 200..299, each kind of body in both status
\* classes, a body stream that cannot be read, and a transport error.
Replies ==
    { Reply(200, "hdrA", "obj1"), Reply(299, "hdrB", "obj2"),
      Reply(200, "hdrB", "malformed"), Reply(299, "hdrA", "null"),
      Reply(199, "hdrA", "obj2"), Reply(300, "hdrB", "obj1"),
      Reply(404, "hdrA", "malformed"), Reply(300, "hdrA", "null"),
      [Reply(200, "hdrA", "obj1") EXCEPT !.readFails = TRUE],
      [kind |-> "error", status |-> 0, header |-> "hdrA", body |-> "obj1",
       readFails |-> FALSE] }

VARIABLES builders, arrays, shapes, exec, req, ret, expect

vars == <<builders, arrays, shapes, exec, req, ret, expect>>

\* ------------------------------------------------------- []string slices
NilSlice == [arr |-> 0, len |-> 0]

Cap(as, s) == IF s.arr = 0 THEN 0 ELSE Len(as[s.arr])

SliceValues(as, s) == [i \in 1..s.len |-> as[s.arr][i]]

\* The runtime's growth of a full slice that gets one more element.
GrowCap(c) == IF c = 0 THEN 1 ELSE 2 * c

\* append(s, v): in place when the capacity allows, else into a fresh array.
AppendSlice(as, s, v) ==
    IF s.len < Cap(as, s)
    THEN [slice |-> [arr |-> s.arr, len |-> s.len + 1],
          arrays |-> [as EXCEPT ![s.arr][s.len + 1] = v]]
    ELSE LET fresh == [i \in 1..GrowCap(Cap(as, s)) |->
                          IF i <= s.len THEN as[s.arr][i]
                          ELSE IF i = s.len + 1 THEN v ELSE ""]
         IN  [slice |-> [arr |-> Len(as) + 1, len |-> s.len + 1],
              arrays |-> Append(as, fresh)]

\* ------------------------------------------------------------ http.Header
ToUpper(c) == CASE c = "a" -> "A" [] c = "d" -> "D" [] c = "i" -> "I"
                [] c = "x" -> "X" [] OTHER -> c

ToLower(c) == CASE c = "A" -> "a" [] c = "D" -> "d" [] c = "I" -> "i"
                [] c = "X" -> "x" [] OTHER -> c

\* textproto.CanonicalMIMEHeaderKey: upper-case the first letter and every
\* letter after a hyphen, lower-case the rest.
CanonicalMIMEHeaderKey(key) ==
    [i \in 1..Len(key) |->
        IF i = 1 \/ key[i - 1] = "-" THEN ToUpper(key[i]) ELSE ToLower(key[i])]

EmptyHeader == [k \in {} |-> NilSlice]

HeaderGet(h, k) == IF k \in DOMAIN h THEN h[k] ELSE NilSlice

HeaderPut(h, k, s) == [x \in DOMAIN h \cup {k} |-> IF x = k THEN s ELSE h[x]]

\* http.Header.Add: h[key] = append(h[key], value) under the canonical key.
HeaderAdd(as, h, key, value) ==
    LET k == CanonicalMIMEHeaderKey(key)
        r == AppendSlice(as, HeaderGet(h, k), value)
    IN  [header |-> HeaderPut(h, k, r.slice), arrays |-> r.arrays]

\* http.Header.Set: h[key] = []string{value} under the canonical key.
HeaderSet(as, h, key, value) ==
    LET k == CanonicalMIMEHeaderKey(key)
    IN  [header |-> HeaderPut(h, k, [arr |-> Len(as) + 1, len |-> 1]),
         arrays |-> Append(as, <<value>>)]

\* The multi-map a header denotes: key -> values in order.
HeaderView(as, h) == [k \in DOMAIN h |-> SliceValues(as, h[k])]

\* ------------------------------------------------------------------ url
\* url.Parse on the strings the model uses: the part before "?" (scheme
\* lower-cased) and the raw query; ":bad" has no scheme and is rejected.
ParseURL(address) ==
    CASE address = "" -> [ok |-> TRUE, base |-> "", rawQuery |-> ""]
      [] address = "http://example.com" ->
            [ok |-> TRUE, base |-> "http://example.com", rawQuery |-> ""]
      [] address = "http://example.com?x=1" ->
            [ok |-> TRUE, base |-> "http://example.com", rawQuery |-> "x=1"]
      [] address = "HTTP://example.com?x=1" ->
            [ok |-> TRUE, base |-> "http://example.com", rawQuery |-> "x=1"]
      [] OTHER -> [ok |-> FALSE, base |-> "", rawQuery |-> ""]

\* (*url.URL).String
URLString(u) ==
    IF u.rawQuery = "" THEN u.base ELSE u.base \o "?" \o u.rawQuery

\* ------------------------------------------------- encoding capabilities
\* query.Values: nil gives empty values and no error, a struct gives its
\* tagged fields, anything else is an error.
QueryValues(q) ==
    CASE q = "nil" -> [ok |-> TRUE, values |-> <<>>]
      [] q = "fakeQuery" ->
            [ok |-> TRUE, values |-> <<<<"id", "20">>, <<"name", "John">>>>]
      [] OTHER -> [ok |-> FALSE, values |-> <<>>]

\* url.Values.Encode: "k=v" pairs joined by "&".
RECURSIVE Encode(_)
Encode(v) ==
    IF Len(v) = 0 THEN ""
    ELSE IF Len(v) = 1 THEN v[1][1] \o "=" \o v[1][2]
    ELSE v[1][1] \o "=" \o v[1][2] \o "&" \o Encode(Tail(v))

\* json.Marshal of the request body.
Marshal(body) ==
    CASE body = "fakeSuccess" -> [ok |-> TRUE, bytes |-> "{ID:10,Name:Bob}"]
      [] OTHER -> [ok |-> FALSE, bytes |-> ""]

\* An error message is the sequence of its parts; the nil error has none.
NoErr == <<>>

\* json.Unmarshal(body, &slot), where slot is an interface holding the
\* pointer ref: malformed text is an error that changes nothing; the literal
\* null sets the interface itself to nil; an object is decoded into the
\* object ref points to.
Unmarshal(body, ref, sh) ==
    CASE body = "malformed" ->
            [val |-> ref, err |-> <<"invalid character">>, shapes |-> sh]
      [] body = "null" -> [val |-> NilShape, err |-> NoErr, shapes |-> sh]
      [] OTHER -> [val |-> ref, err |-> NoErr,
                   shapes |-> [sh EXCEPT ![ref] = body]]

\* --------------------------------------------------------------- Request
NoReq == [nil |-> TRUE]

\* http.NewRequest: parses the url; the new request's header is empty.
NewRequest(method, url, body) ==
    LET u == ParseURL(url)
    IN  IF ~u.ok THEN [req |-> NoReq, err |-> <<"parse">>]
        ELSE [req |-> [nil |-> FALSE, method |-> method, base |-> u.base,
                       rawQuery |-> u.rawQuery, body |-> body,
                       header |-> <<>>],
              err |-> NoErr]

\* Request() with the query encoding error returned instead of dropped.
RequestOfQueryErrorReturned(r) ==
    LET m == IF r.body # "nil" THEN Marshal(r.body)
             ELSE [ok |-> TRUE, bytes |-> "nil"]
    IN  IF ~m.ok THEN [req |-> NoReq, err |-> <<"json: unsupported type">>]
        ELSE LET nr == NewRequest(r.method, r.url, m.bytes)
             IN  IF nr.err # NoErr THEN nr
                 ELSE LET v == QueryValues(r.query)
                      IN  IF v.ok
                          THEN [req |-> [nr.req EXCEPT !.rawQuery = Encode(v.values)],
                                err |-> NoErr]
                          ELSE [req |-> NoReq, err |-> <<"query">>]

\* (r *Request) Request()
RequestOf(r) ==
    LET m == IF r.body # "nil" THEN Marshal(r.body)
             ELSE [ok |-> TRUE, bytes |-> "nil"]
    IN  IF ~m.ok THEN [req |-> NoReq, err |-> <<"json: unsupported type">>]
        ELSE LET nr == NewRequest(r.method, r.url, m.bytes)
             IN  IF nr.err # NoErr THEN nr
                 ELSE LET v == QueryValues(r.query)
                      IN  [req |-> IF v.ok
                                   THEN [nr.req EXCEPT !.rawQuery = Encode(v.values)]
                                   ELSE nr.req,
                           err |-> NoErr]

\* setURL that stores the outcome of url.Parse whether or not it failed.
setURLAlways(r, address) == [r EXCEPT !.url = URLString(ParseURL(address))]

\* (r *Request) setURL
setURL(r, address) ==
    LET path == ParseURL(address)
    IN  IF path.ok THEN [r EXCEPT !.url = URLString(path)] ELSE r

\* (r *Request) decodeResp
decodeResp(r, resp, body, sh) ==
    IF 200 <= resp.StatusCode /\ resp.StatusCode <= 299
    THEN IF r.Success # NilShape
         THEN LET u == Unmarshal(body, r.Success, sh)
              IN  [resp |-> [resp EXCEPT !.Success = u.val], err |-> u.err,
                   shapes |-> u.shapes]
         ELSE [resp |-> resp, err |-> NoErr, shapes |-> sh]
    ELSE IF r.Failure # NilShape
         THEN LET u == Unmarshal(body, r.Failure, sh)
              IN  [resp |-> [resp EXCEPT !.Failure = u.val], err |-> u.err,
                   shapes |-> u.shapes]
         ELSE [resp |-> resp, err |-> NoErr, shapes |-> sh]

NoResp == [nil |-> TRUE]

DecodePrefix == "failed to decode API response: "

\* do that returns no Response on a decode error, as on the other errors.
doNilOnDecodeError(r, reply, sh) ==
    IF reply.kind = "error"
    THEN [resp |-> NoResp, err |-> <<"transport">>, shapes |-> sh]
    ELSE IF reply.readFails
    THEN [resp |-> NoResp, err |-> <<"read">>, shapes |-> sh]
    ELSE LET response == [nil |-> FALSE, StatusCode |-> reply.status,
                          Header |-> reply.header, Success |-> NilShape,
                          Failure |-> NilShape]
             d == decodeResp(r, response, reply.body, sh)
         IN  IF d.err # NoErr
             THEN [resp |-> NoResp, err |-> <<DecodePrefix>> \o d.err,
                   shapes |-> d.shapes]
             ELSE [resp |-> d.resp, err |-> NoErr, shapes |-> d.shapes]

\* (r *Request) do, given what r.client.Do answers
do(r, reply, sh) ==
    IF reply.kind = "error"
    THEN [resp |-> NoResp, err |-> <<"transport">>, shapes |-> sh]
    ELSE IF reply.readFails
    THEN [resp |-> NoResp, err |-> <<"read">>, shapes |-> sh]
    ELSE LET response == [nil |-> FALSE, StatusCode |-> reply.status,
                          Header |-> reply.header, Success |-> NilShape,
                          Failure |-> NilShape]
             d == decodeResp(r, response, reply.body, sh)
         IN  [resp |-> d.resp,
              err |-> IF d.err # NoErr THEN <<DecodePrefix>> \o d.err ELSE NoErr,
              shapes |-> d.shapes]

\* ------------------------------------------------------------- the state
Ids == 1..Len(builders)

\* func New(): a fresh client, method GET, an empty header.
NewRequestValue(client) ==
    [client |-> client, method |-> "GET", url |-> "", header |-> EmptyHeader,
     query |-> "nil", body |-> "nil", Success |-> NilShape,
     Failure |-> NilShape]

\* The receiver of a call as it was at the call, its header as the
\* multi-map it denoted then.
Snapshot(as, r) == [r EXCEPT !.header = HeaderView(as, r.header)]

NoExec ==
    [by |-> 0, of |-> NewRequestValue(0), sent |-> NoReq,
     reply |-> [kind |-> "none"], resp |-> NoResp, err |-> NoErr]

NoMaterial == [by |-> 0, of |-> NewRequestValue(0), req |-> NoReq, err |-> NoErr]

\* A key with letter case ignored.
Fold(key) == [i \in 1..Len(key) |-> ToLower(key[i])]

FoldedKeys == {Fold(k) : k \in RawKeys}

Init ==
    /\ builders = <<NewRequestValue(1)>>
    /\ arrays = <<>>
    /\ shapes = [s \in ShapeIds |-> "zero"]
    /\ exec = NoExec
    /\ req = NoMaterial
    /\ ret = 1
    /\ expect = <<[k \in FoldedKeys |-> <<>>]>>

\* ------------------------------------------------------------ operations
\* func New()
New ==
    /\ Len(builders) < MaxBuilders
    /\ builders' = Append(builders, NewRequestValue(Len(builders) + 1))
    /\ expect' = Append(expect, [k \in FoldedKeys |-> <<>>])
    /\ ret' = Len(builders) + 1
    /\ UNCHANGED <<arrays, shapes, exec, req>>

\* The copy (r *Request) New() builds: every header key is given the
\* source's slice value, every other field the source's field.
CopyOf(r) ==
    [client |-> r.client, method |-> r.method, url |-> r.url,
     header |-> [key \in DOMAIN r.header |-> r.header[key]],
     query |-> r.query, body |-> r.body, Success |-> r.Success,
     Failure |-> r.Failure]

\* func (r *Request) New()
RequestNew(b) ==
    /\ b \in Ids
    /\ Len(builders) < MaxBuilders
    /\ builders' = Append(builders, CopyOf(builders[b]))
    /\ expect' = Append(expect, expect[b])
    /\ ret' = Len(builders) + 1
    /\ UNCHANGED <<arrays, shapes, exec, req>>

SetSuccess(b, success) ==
    /\ b \in Ids
    /\ builders' = [builders EXCEPT ![b].Success = success]
    /\ ret' = b
    /\ UNCHANGED <<arrays, shapes, exec, req, expect>>

SetFailure(b, failure) ==
    /\ b \in Ids
    /\ builders' = [builders EXCEPT ![b].Failure = failure]
    /\ ret' = b
    /\ UNCHANGED <<arrays, shapes, exec, req, expect>>

SetHeader(b, key, value) ==
    /\ b \in Ids
    /\ LET r == HeaderSet(arrays, builders[b].header, key, value)
       IN  /\ Len(r.arrays) <= MaxArrays
           /\ builders' = [builders EXCEPT ![b].header = r.header]
           /\ arrays' = r.arrays
    /\ expect' = [expect EXCEPT ![b][Fold(key)] = <<value>>]
    /\ ret' = b
    /\ UNCHANGED <<shapes, exec, req>>

AddHeader(b, key, value) ==
    /\ b \in Ids
    /\ LET r == HeaderAdd(arrays, builders[b].header, key, value)
       IN  /\ Len(r.arrays) <= MaxArrays
           /\ builders' = [builders EXCEPT ![b].header = r.header]
           /\ arrays' = r.arrays
    /\ expect' = [expect EXCEPT ![b][Fold(key)] = Append(@, value)]
    /\ ret' = b
    /\ UNCHANGED <<shapes, exec, req>>

SetQuery(b, query) ==
    /\ b \in Ids
    /\ builders' = [builders EXCEPT ![b].query = query]
    /\ ret' = b
    /\ UNCHANGED <<arrays, shapes, exec, req, expect>>

SetBody(b, body) ==
    /\ b \in Ids
    /\ builders' = [builders EXCEPT ![b].body = body]
    /\ ret' = b
    /\ UNCHANGED <<arrays, shapes, exec, req, expect>>

\* (r *Request) Get: the verb, then setURL.
Get(b, url) ==
    /\ b \in Ids
    /\ builders' = [builders EXCEPT
                        ![b] = setURL([@ EXCEPT !.method = "GET"], url)]
    /\ ret' = b
    /\ UNCHANGED <<arrays, shapes, exec, req, expect>>

\* (r *Request) Post: the verb, then setURL.
Post(b, url) ==
    /\ b \in Ids
    /\ builders' = [builders EXCEPT
                        ![b] = setURL([@ EXCEPT !.method = "POST"], url)]
    /\ ret' = b
    /\ UNCHANGED <<arrays, shapes, exec, req, expect>>

\* (r *Request) Put: the verb, then setURL.
Put(b, url) ==
    /\ b \in Ids
    /\ builders' = [builders EXCEPT
                        ![b] = setURL([@ EXCEPT !.method = "PUT"], url)]
    /\ ret' = b
    /\ UNCHANGED <<arrays, shapes, exec, req, expect>>

\* (r *Request) Head (Head is taken by Sequences): the verb, then setURL.
RequestHead(b, url) ==
    /\ b \in Ids
    /\ builders' = [builders EXCEPT
                        ![b] = setURL([@ EXCEPT !.method = "HEAD"], url)]
    /\ ret' = b
    /\ UNCHANGED <<arrays, shapes, exec, req, expect>>

\* (r *Request) Delete: the verb, then setURL.
Delete(b, url) ==
    /\ b \in Ids
    /\ builders' = [builders EXCEPT
                        ![b] = setURL([@ EXCEPT !.method = "DELETE"], url)]
    /\ ret' = b
    /\ UNCHANGED <<arrays, shapes, exec, req, expect>>

\* (r *Request) Patch: the verb, then setURL.
Patch(b, url) ==
    /\ b \in Ids
    /\ builders' = [builders EXCEPT
                        ![b] = setURL([@ EXCEPT !.method = "PATCH"], url)]
    /\ ret' = b
    /\ UNCHANGED <<arrays, shapes, exec, req, expect>>

\* (r *Request) Request(), called by the user
Request(b) ==
    /\ b \in Ids
    /\ LET m == RequestOf(builders[b])
       IN  req' = [by |-> b, of |-> Snapshot(arrays, builders[b]),
                   req |-> m.req, err |-> m.err]
    /\ UNCHANGED <<builders, arrays, shapes, exec, ret, expect>>

\* (r *Request) sendRequest: materialise, then do; returns (resp, err).
sendRequest(b, reply) ==
    LET m == RequestOf(builders[b])
    IN  IF m.err # NoErr
        THEN [sent |-> NoReq, reply |-> [kind |-> "none"], resp |-> NoResp,
              err |-> m.err, shapes |-> shapes]
        ELSE LET d == do(builders[b], reply, shapes)
             IN  [sent |-> m.req, reply |-> reply, resp |-> d.resp,
                  err |-> d.err, shapes |-> d.shapes]

\* (r *Request) Execute
Execute(b, reply) ==
    /\ b \in Ids
    /\ LET o == sendRequest(b, reply)
       IN  /\ shapes' = o.shapes
           /\ exec' = [by |-> b, of |-> Snapshot(arrays, builders[b]),
                       sent |-> o.sent, reply |-> o.reply,
                       resp |-> o.resp, err |-> o.err]
    /\ UNCHANGED <<builders, arrays, req, ret, expect>>

Next ==
    \/ New
    \/ \E b \in Ids : RequestNew(b)
    \/ \E b \in Ids, s \in ShapeIds \cup {NilShape} : SetSuccess(b, s)
    \/ \E b \in Ids, s \in ShapeIds \cup {NilShape} : SetFailure(b, s)
    \/ \E b \in Ids, k \in RawKeys, v \in HeaderValues : SetHeader(b, k, v)
    \/ \E b \in Ids, k \in RawKeys, v \in HeaderValues : AddHeader(b, k, v)
    \/ \E b \in Ids, q \in QueryObjs : SetQuery(b, q)
    \/ \E b \in Ids, o \in BodyObjs : SetBody(b, o)
    \/ \E b \in Ids, a \in Addresses : Get(b, a)
    \/ \E b \in Ids, a \in Addresses : Post(b, a)
    \/ \E b \in Ids, a \in Addresses : Put(b, a)
    \/ \E b \in Ids, a \in Addresses : RequestHead(b, a)
    \/ \E b \in Ids, a \in Addresses : Delete(b, a)
    \/ \E b \in Ids, a \in Addresses : Patch(b, a)
    \/ \E b \in Ids : Request(b)
    \/ \E b \in Ids, reply \in Replies : Execute(b, reply)

Spec == Init /\ [][Next]_vars

\* Next is the whole program.  Its fields are independent of each other
\* except through the operations below, and each of the following
\* specifications takes the operations one group of fields goes through.

\* A reply that decodes and a transport error.
FewReplies ==
    { Reply(200, "hdrA", "obj1"),
      [kind |-> "error", status |-> 0, header |-> "hdrA", body |-> "obj1",
       readFails |-> FALSE] }

\* Two replies of each status class and a transport error.
SomeReplies ==
    FewReplies \cup { Reply(299, "hdrB", "obj2"), Reply(300, "hdrB", "obj1"),
                      Reply(404, "hdrA", "malformed") }

\* Headers across Builders: New, derivation, SetHeader, AddHeader.
NextHeaders ==
    \/ New
    \/ \E b \in Ids : RequestNew(b)
    \/ \E b \in Ids, k \in RawKeys, v \in HeaderValues : SetHeader(b, k, v)
    \/ \E b \in Ids, k \in RawKeys, v \in HeaderValues : AddHeader(b, k, v)

SpecHeaders == Init /\ [][NextHeaders]_vars

\* Headers on the constructed Builder and what Execute sends: SetHeader,
\* AddHeader, Execute.
NextSend ==
    \/ \E k \in RawKeys, v \in HeaderValues : SetHeader(1, k, v)
    \/ \E k \in RawKeys, v \in HeaderValues : AddHeader(1, k, v)
    \/ \E reply \in FewReplies : Execute(1, reply)

SpecSend == Init /\ [][NextSend]_vars

\* Result shapes across Builders: derivation, SetSuccess, SetFailure,
\* Execute.
NextDecode ==
    \/ \E b \in Ids : RequestNew(b)
    \/ \E b \in Ids, s \in ShapeIds \cup {NilShape} : SetSuccess(b, s)
    \/ \E b \in Ids, s \in ShapeIds \cup {NilShape} : SetFailure(b, s)
    \/ \E b \in Ids, reply \in SomeReplies : Execute(b, reply)

SpecDecode == Init /\ [][NextDecode]_vars

\* Execution on the constructed Builder: SetSuccess, SetFailure, Execute.
NextExecute ==
    \/ \E s \in ShapeIds \cup {NilShape} : SetSuccess(1, s)
    \/ \E s \in ShapeIds \cup {NilShape} : SetFailure(1, s)
    \/ \E reply \in Replies : Execute(1, reply)

SpecExecute == Init /\ [][NextExecute]_vars

\* Materialisation on the constructed Builder: Get, SetQuery, SetBody,
\* Request, Execute.
NextMaterialize ==
    \/ \E a \in Addresses : Get(1, a)
    \/ \E q \in QueryObjs : SetQuery(1, q)
    \/ \E o \in BodyObjs : SetBody(1, o)
    \/ Request(1)
    \/ \E reply \in FewReplies : Execute(1, reply)

SpecMaterialize == Init /\ [][NextMaterialize]_vars

\* The method setters on the constructed Builder, with every other field
\* set to something by its own setter.
NextMethods ==
    \/ \E a \in Addresses : Get(1, a)
    \/ \E a \in Addresses : Post(1, a)
    \/ \E a \in Addresses : Put(1, a)
    \/ \E a \in Addresses : RequestHead(1, a)
    \/ \E a \in Addresses : Delete(1, a)
    \/ \E a \in Addresses : Patch(1, a)
    \/ \E q \in {"nil", "fakeQuery"} : SetQuery(1, q)
    \/ \E o \in {"nil", "fakeSuccess"} : SetBody(1, o)
    \/ \E s \in {NilShape, 1} : SetSuccess(1, s)
    \/ \E s \in {NilShape, 2} : SetFailure(1, s)
    \/ AddHeader(1, <<"i", "d">>, "v1")

SpecMethods == Init /\ [][NextMethods]_vars

\* ============================================================ properties
In2xx(status) == status \in 200..299

\* C1: the request Execute hands to the transport carries the Builder's
\* header multi-map as it is at the call.
C1_SentCarriesHeaders ==
    (exec.by # 0 /\ ~exec.sent.nil) => exec.sent.header = exec.of.header

\* C2: in the Response Execute returns, Success is set exactly when the
\* status is in 200..299 and a success shape was declared, Failure exactly
\* when the status is outside 200..299 and a failure shape was declared,
\* and never both.
C2_PopulatedIffDeclared ==
    (exec.by # 0 /\ ~exec.resp.nil) =>
        /\ (exec.resp.Success # NilShape) <=>
               (In2xx(exec.reply.status) /\ exec.of.Success # NilShape)
        /\ (exec.resp.Failure # NilShape) <=>
               (~In2xx(exec.reply.status) /\ exec.of.Failure # NilShape)
        /\ ~(exec.resp.Success # NilShape /\ exec.resp.Failure # NilShape)

\* The transport replied, the body was read, and it cannot be unmarshalled
\* into the shape declared for the status class of the reply.
DecodeFails ==
    /\ exec.by # 0
    /\ exec.reply.kind = "reply"
    /\ ~exec.reply.readFails
    /\ exec.reply.body = "malformed"
    /\ IF In2xx(exec.reply.status) THEN exec.of.Success # NilShape
       ELSE exec.of.Failure # NilShape

\* C3: on a decode failure Execute returns an error that starts with the
\* decode-failure prefix, and a Response with the reply's status code and
\* header.
C3_DecodeFailure ==
    DecodeFails =>
        /\ Len(exec.err) > 1
        /\ exec.err[1] = "failed to decode API response: "
        /\ ~exec.resp.nil
        /\ exec.resp.StatusCode = exec.reply.status
        /\ exec.resp.Header = exec.reply.header

\* C3 witness: Execute has returned from a 404 reply whose body cannot be
\* unmarshalled into the declared failure shape.
C3_Witness == DecodeFails /\ exec.err # NoErr /\ exec.reply.status = 404

\* C4: an AddHeader or SetHeader call on one Builder leaves the header
\* values of every other Builder as they were.
C4_NoCrossEffect ==
    [][\A b \in Ids, c \in Ids, k \in RawKeys, v \in HeaderValues :
          (b # c /\ (AddHeader(c, k, v) \/ SetHeader(c, k, v))) =>
              HeaderView(arrays', builders'[b].header)
                  = HeaderView(arrays, builders[b].header)]_vars

\* C5: the Builder that r.New() returns has r's client, and each result
\* shape it holds is another object than the one r holds.
C5_NoSharedShapes ==
    [][\A b \in Ids :
          RequestNew(b) =>
              LET n == builders'[Len(builders')]
              IN  /\ n.client = builders[b].client
                  /\ n.Success # NilShape => n.Success # builders[b].Success
                  /\ n.Failure # NilShape => n.Failure # builders[b].Failure]_vars

\* What a caller reads from a Response: its status, its header and the
\* content of the objects Success and Failure refer to.
ResponseView(resp, sh) ==
    [StatusCode |-> resp.StatusCode, Header |-> resp.Header,
     Success |-> IF resp.Success = NilShape THEN "unset" ELSE sh[resp.Success],
     Failure |-> IF resp.Failure = NilShape THEN "unset" ELSE sh[resp.Failure]]

\* C6: no step changes what a Response returned earlier reads as.
C6_ResponseImmutable ==
    [][~exec.resp.nil =>
          ResponseView(exec.resp, shapes') = ResponseView(exec.resp, shapes)]_vars

\* C7: under each key, letter case ignored, a Builder stores exactly one
\* list, holding the value of the last SetHeader on the key followed by the
\* values of the later AddHeader calls on it, in call order.
C7_StoredValues ==
    \A b \in Ids, k \in FoldedKeys :
        LET h == builders[b].header
            stored == {sk \in DOMAIN h : Fold(sk) = k}
        IN  IF expect[b][k] = <<>> THEN stored = {}
            ELSE /\ Cardinality(stored) = 1
                 /\ \A sk \in stored : SliceValues(arrays, h[sk]) = expect[b][k]

\* The query a url string embeds.
EmbeddedQuery(url) ==
    IF url \in {"http://example.com?x=1", "HTTP://example.com?x=1"} THEN "x=1"
    ELSE ""

\* C8: the materialised request's query is the encoded pairs when a query
\* object is set and encodes, and the query the stored url embeds when no
\* query object is set.
C8_QueryOnlyWhenSet ==
    (req.by # 0 /\ ~req.req.nil) =>
        /\ req.of.query = "fakeQuery" => req.req.rawQuery = "id=20&name=John"
        /\ req.of.query = "nil" => req.req.rawQuery = EmbeddedQuery(req.of.url)

\* What a method setter may do to the Builder it is called on.
SetterEffect(verb, address) ==
    /\ Len(builders') = Len(builders)
    /\ ret' = 1
    /\ builders'[1].method = verb
    /\ builders'[1] = [builders[1] EXCEPT !.method = verb,
                                          !.url = builders'[1].url]
    /\ address = ":bad" => builders'[1].url = builders[1].url
    /\ address = "http://example.com" => builders'[1].url = "http://example.com"
    /\ arrays' = arrays /\ shapes' = shapes /\ exec' = exec /\ req' = req

\* C9: each method setter sets its own verb, returns the Builder it was
\* called on and changes no other field than method and url; an address
\* that does not parse leaves the url as it was.
C9_MethodSetters ==
    [][\A a \in Addresses :
          /\ Get(1, a) => SetterEffect("GET", a)
          /\ Post(1, a) => SetterEffect("POST", a)
          /\ Put(1, a) => SetterEffect("PUT", a)
          /\ RequestHead(1, a) => SetterEffect("HEAD", a)
          /\ Delete(1, a) => SetterEffect("DELETE", a)
          /\ Patch(1, a) => SetterEffect("PATCH", a)]_vars

\* C9 witness: a method setter has acted on a Builder whose other fields
\* are all set.
C9_Witness ==
    /\ builders[1].method = "PATCH"
    /\ builders[1].url = "http://example.com?x=1"
    /\ builders[1].query = "fakeQuery"
    /\ builders[1].body = "fakeSuccess"
    /\ builders[1].Success = 1
    /\ builders[1].Failure = 2
    /\ DOMAIN builders[1].header # {}

\* The query object is set, query.Values fails on it, and nothing else
\* stops the materialisation.
QueryFails(call) ==
    /\ call.by # 0
    /\ call.of.query = "notAStruct"
    /\ call.of.body # "unmarshallable"

\* C10 as stated: when the query encoding fails, Request() returns a
\* request and no error, Execute hands a request to the transport, and that
\* request has no query string.
C10_NoQueryString ==
    /\ QueryFails(req) =>
           (req.err = NoErr /\ ~req.req.nil /\ req.req.rawQuery = "")
    /\ QueryFails(exec) => (~exec.sent.nil /\ exec.sent.rawQuery = "")

\* C10 amended: when the query encoding fails, Request() returns a request
\* and no error, Execute hands a request to the transport, and that
\* request's query is the one the stored url embeds.
C10_QueryFailureDropped ==
    /\ QueryFails(req) =>
           /\ req.err = NoErr
           /\ ~req.req.nil
           /\ req.req.rawQuery = EmbeddedQuery(req.of.url)
    /\ QueryFails(exec) =>
           /\ ~exec.sent.nil
           /\ exec.reply.kind # "none"
           /\ exec.sent.rawQuery = EmbeddedQuery(exec.of.url)

\* C10 witness: both Request() and Execute have run on a Builder whose
\* query encoding fails and whose url embeds a query.
C10_Witness ==
    /\ QueryFails(req) /\ req.of.url = "http://example.com?x=1"
    /\ QueryFails(exec) /\ exec.of.url = "http://example.com?x=1"

====
